---------------------------- MODULE Spec2Model ----------------------------
(***************************************************************************)
(* Model of notebooks/Qualitative_Analysis.ipynb: loading and cleaning of  *)
(* the result files, balanced sampling with Sample_ID assignment, the      *)
(* reliability carve-out, shuffling and batching for raters, and the       *)
(* reconciliation and metadata merge of the labeled files.                 *)
(*                                                                         *)
(* Strings whose characters matter (answers, confidence values) are        *)
(* sequences of one-character tokens.  "U8DF3" and "U8FC7" stand for the   *)
(* two CJK characters of the skip marker (U+8DF3, U+8FC7); "SUP2" stands   *)
(* for the superscript two (U+00B2), a character for which str.isdigit()   *)
(* is true and which float() does not accept.                              *)
(***************************************************************************)
EXTENDS Integers, Sequences, FiniteSets, TLC

(***************************************************************************)
(* Bounds of the model                                                     *)
(***************************************************************************)
\* longest raw string handed to clean_answer / clean_confidence_value
MaxStrLen == 3
\* most files glob.glob returns for results_*.csv
MaxFiles == 2
\* the seeded generator is one of (MaxRngOffset + 1) * MaxRngStride generators
MaxRngOffset == 1
MaxRngStride == 2

(***************************************************************************)
(* Characters and values                                                   *)
(***************************************************************************)
UpperChars == {"A", "B"}
LowerChars == {"a"}
CJKChars == {"U8DF3", "U8FC7"}
DecimalChars == {"8", "5"}
Alphabet == UpperChars \cup LowerChars \cup CJKChars \cup DecimalChars
              \cup {"SUP2", ".", ",", " ", "%"}

\* str.isalpha(): letters of any case and any script
isalpha(c) == c \in UpperChars \cup LowerChars \cup CJKChars
\* str.isdigit(): decimal digits and other digit characters
isdigit(c) == c \in DecimalChars \cup {"SUP2"}

\* the missing value of a pandas column (NaN / None), as pd.isna sees it
NaN == <<"NaN">>
isna(x) == x = NaN
notna(x) == x # NaN

DigitVal(c) == IF c = "8" THEN 8 ELSE 5

\* ''.join(c for c in s if c in keep)
Filter(s, keep) == SelectSeq(s, LAMBDA c : c \in keep)

AlphaChars == {c \in Alphabet : isalpha(c)}
NumericChars == {c \in Alphabet : isdigit(c) \/ c = "."}

clean_answer_isupper(answer) ==
    IF isna(answer) THEN answer
    ELSE Filter(answer, UpperChars)

\* clean_answer: a missing value is returned as it is, otherwise the letters
\* of the string are kept in their order and everything else is dropped
clean_answer(answer) ==
    IF isna(answer) THEN answer
    ELSE Filter(answer, AlphaChars)

(***************************************************************************)
(* clean_confidence_value.  An input is missing, a number or a string; the *)
(* outcome is None, a float, or an exception leaving the function.         *)
(* A float is mant / 10^frac with no trailing zero in the fraction.        *)
(***************************************************************************)
None == [t |-> "None", mant |-> 0, frac |-> 0]
Float(m, f) == [t |-> "float", mant |-> m, frac |-> f]
Raised(e) == [t |-> e, mant |-> 0, frac |-> 0]

RECURSIVE Normalize(_, _)
Normalize(m, f) ==
    IF f > 0 /\ m % 10 = 0 THEN Normalize(m \div 10, f - 1) ELSE Float(m, f)

RECURSIVE Count(_, _)
Count(s, c) ==
    IF s = <<>> THEN 0
    ELSE (IF Head(s) = c THEN 1 ELSE 0) + Count(Tail(s), c)

RECURSIVE Mantissa(_, _)
Mantissa(s, acc) ==
    IF s = <<>> THEN acc
    ELSE IF Head(s) = "." THEN Mantissa(Tail(s), acc)
         ELSE Mantissa(Tail(s), 10 * acc + DigitVal(Head(s)))

RECURSIVE FracDigits(_)
FracDigits(s) ==
    IF s = <<>> THEN 0
    ELSE IF Head(s) = "." THEN Len(s) - 1
         ELSE FracDigits(Tail(s))

\* float(s) for a string s of digit characters and decimal points: a value
\* when s has at least one decimal digit, at most one point and no other
\* digit character, ValueError otherwise
float_of_str(s) ==
    IF /\ \A i \in 1..Len(s) : s[i] \in DecimalChars \cup {"."}
       /\ Count(s, ".") <= 1
       /\ \E i \in 1..Len(s) : s[i] \in DecimalChars
    THEN Normalize(Mantissa(s, 0), FracDigits(s))
    ELSE Raised("ValueError")

clean_confidence_value_uncaught(x) ==
    IF x.t = "nan" THEN None
    ELSE IF x.t = "str"
         THEN float_of_str(Filter(x.s, NumericChars))
         ELSE Float(x.mant, x.frac)

clean_confidence_value(x) ==
    IF x.t = "nan" THEN None
    ELSE LET r == IF x.t = "str"
                  THEN float_of_str(Filter(x.s, NumericChars))
                  ELSE Float(x.mant, x.frac)
         IN  IF r.t \in {"ValueError", "TypeError"} THEN None ELSE r

(***************************************************************************)
(* Input files.  A file name is given by its components, the strings       *)
(* between the underscores of the base name without ".csv" (line 86); its  *)
(* CSV content is nrows rows that repeat the row templates of cycle.       *)
(***************************************************************************)
StrConf(s) == [t |-> "str", s |-> s, mant |-> 0, frac |-> 0]
NumConf(m, f) == [t |-> "num", s |-> <<>>, mant |-> m, frac |-> f]
NanConf == [t |-> "nan", s |-> <<>>, mant |-> 0, frac |-> 0]

SkipMarker == <<"U8DF3", "U8FC7">>

RawRow(model, answer, correct, conf) ==
    [Model |-> model, Model_Answer |-> answer, Correct_Answer |-> correct,
     Model_Confidence |-> conf]

Ok(m) == RawRow(m, <<"A">>, <<"A">>, StrConf(<<"8", "5", "%">>))
OkMulti(m) == RawRow(m, <<"A", ",", " ", "B">>, <<"A", "B">>, NumConf(85, 0))
Wrong(m) == RawRow(m, <<"B">>, <<"A">>, StrConf(<<"a">>))
Lower(m) == RawRow(m, <<"a">>, <<"A">>, StrConf(<<"8", ".", "5">>))
Skip(m) == RawRow(m, <<"U8DF3", ",", "U8FC7">>, <<"A">>, NanConf)
Missing(m) == RawRow(m, NaN, <<"A">>, StrConf(<<"8", ".", "5", ".">>))

CsvFile(parts, nrows, cycle) == [parts |-> parts, nrows |-> nrows, cycle |-> cycle]

FileCatalog ==
    { CsvFile(<<"results", "policy", "qwen", "condition", "1", "single">>,
              62, <<Ok("qwen"), Wrong("qwen")>>),
      CsvFile(<<"results", "comprehensive", "qwen", "condition", "1", "multiple">>,
              4, <<OkMulti("qwen"), Lower("qwen"), Skip("qwen"), Missing("qwen")>>),
      CsvFile(<<"results", "policy", "gpt4", "condition", "1", "multiple">>,
              5, <<Ok("gpt4"), Wrong("gpt4"), Skip("gpt4"), Missing("gpt4"),
                   OkMulti("gpt4")>>),
      CsvFile(<<"results", "comprehensive", "gpt4", "condition", "1", "single">>,
              3, <<Wrong("gpt4"), Lower("gpt4")>>),
      CsvFile(<<"results", "policy", "kimi", "condition", "1", "single">>,
              2, <<Missing("kimi")>>),
      CsvFile(<<"results", "policy", "glm", "condition", "1", "single">>,
              2, <<Skip("glm")>>),
      CsvFile(<<"results", "policy", "qwen", "condition", "2", "single">>,
              1, <<Ok("qwen")>>),
      CsvFile(<<"results", "policy", "qwen", "condition", "1">>,
              1, <<Ok("qwen")>>),
      CsvFile(<<"results", "policy", "qwen", "cond", "1", "single">>,
              1, <<Ok("qwen")>>),
      CsvFile(<<"results", "policy", "qwen", "1", "single", "condition">>,
              1, <<Ok("qwen")>>) }

\* the lists glob.glob can return: distinct files, in any order
RECURSIVE FileLists(_)
FileLists(n) ==
    IF n = 0 THEN {<<>>}
    ELSE LET shorter == FileLists(n - 1)
         IN  shorter \cup
             { Append(l, f) : l \in {x \in shorter : Len(x) = n - 1},
                              f \in FileCatalog }

GlobResults ==
    { l \in FileLists(MaxFiles) :
        \A i, j \in 1..Len(l) : i # j => l[i].parts # l[j].parts }

\* pd.read_csv(file): the rows of the file, numbered by Question_ID
read_csv(file) ==
    [i \in 1..file.nrows |->
        LET raw == file.cycle[((i - 1) % Len(file.cycle)) + 1]
        IN  [Question_ID |-> i, Model |-> raw.Model,
             Model_Answer |-> raw.Model_Answer,
             Correct_Answer |-> raw.Correct_Answer,
             Model_Confidence |-> raw.Model_Confidence]]

\* parts.index('condition'): the first position holding it, 0-based; -1
\* stands for the ValueError raised when there is none
index_of_condition(parts) ==
    IF \E i \in 1..Len(parts) : parts[i] = "condition"
    THEN (CHOOSE i \in 1..Len(parts) :
             /\ parts[i] = "condition"
             /\ \A j \in 1..(i - 1) : parts[j] # "condition") - 1
    ELSE -1

\* lines 113-124: the columns of one file's dataframe after cleaning
ProcessedRow(r, parts) ==
    LET answer == clean_answer(r.Model_Answer)
        correct == clean_answer(r.Correct_Answer)
    IN  [Question_ID |-> r.Question_ID, Model |-> r.Model,
         Model_Answer |-> answer,
         Correct_Answer |-> correct,
         Model_Confidence |-> clean_confidence_value(r.Model_Confidence),
         Condition |-> <<parts[4], parts[5]>>,
         Exam_Type |-> parts[2],
         Question_Type |-> parts[6],
         \* NaN == NaN is False in a pandas comparison
         Is_Correct |-> notna(answer) /\ notna(correct) /\ answer = correct]

ProcessedFile(file) ==
    LET raw == read_csv(file)
    IN  [i \in 1..Len(raw) |-> ProcessedRow(raw[i], file.parts)]

RECURSIVE concat(_)
concat(frames) ==
    IF frames = <<>> THEN <<>> ELSE Head(frames) \o concat(Tail(frames))

(***************************************************************************)
(* Program constants                                                       *)
(***************************************************************************)
\* correct answers sampled per model, n=min(30, ...)
CorrectPerModel == 30
\* rows set aside for reliability testing, sample(n=30, ...)
ReliabilityN == 30
batch_size == 100
\* random_state of the samples and of the shuffle
SampleSeed == 1
ShuffleSeed == 77
\* f"S{i:03d}": the least number of digits
IdWidth == 3

(***************************************************************************)
(* State                                                                   *)
(***************************************************************************)
VARIABLES
    pc,                 \* the cell or loop step to run next
    err,                \* the exception that ended the run and the cell it left
    rng,                \* which generator np.random.RandomState(seed) is
    csv_files,          \* glob.glob(.../results_*.csv)
    file_i,             \* position of the for loop in csv_files
    dfs,                \* the dataframes appended so far
    df,                 \* load_and_process_files()
    true_samples, false_samples,
    true_raliability, false_reliability,
    true_samples_rater, false_samples_rater,
    written,            \* the CSV files written, in order
    labeled_correct, labeled_incorrect,
    printed,            \* the rows printed by the missing-label check
    labeled_combined,
    fn                  \* a call of a cleaning function: name, argument, result

vars == <<pc, err, rng, csv_files, file_i, dfs, df, true_samples, false_samples,
          true_raliability, false_reliability, true_samples_rater,
          false_samples_rater, written, labeled_correct, labeled_incorrect,
          printed, labeled_combined, fn>>

sampleVars == <<true_samples, false_samples>>
raterVars == <<true_raliability, false_reliability, true_samples_rater,
               false_samples_rater>>
labelVars == <<labeled_correct, labeled_incorrect, printed, labeled_combined>>
loadVars == <<csv_files, file_i, dfs, df>>

NoCall == [name |-> "none"]
NoError == [type |-> "none", at |-> "none"]
NoFrame == [kind |-> "none", rows |-> <<>>]

Generators == [offset : 0..MaxRngOffset, stride : 1..MaxRngStride]

Init ==
    /\ pc = "load"
    /\ err = NoError
    /\ rng \in Generators
    /\ csv_files \in GlobResults
    /\ file_i = 1
    /\ dfs = <<>>
    /\ df = <<>>
    /\ true_samples = <<>>
    /\ false_samples = <<>>
    /\ true_raliability = <<>>
    /\ false_reliability = <<>>
    /\ true_samples_rater = <<>>
    /\ false_samples_rater = <<>>
    /\ written = <<>>
    /\ labeled_correct = NoFrame
    /\ labeled_incorrect = NoFrame
    /\ printed = <<>>
    /\ labeled_combined = <<>>
    /\ fn = NoCall

\* an exception leaves the cell that runs; the notebook stops there
Raise(e) == pc' = "raised" /\ err' = [type |-> e, at |-> pc]

(***************************************************************************)
(* load_and_process_files: one action per way through the loop body        *)
(***************************************************************************)
InLoop == pc = "load" /\ file_i <= Len(csv_files)
parts == csv_files[file_i].parts

NextFile ==
    /\ file_i' = file_i + 1
    /\ UNCHANGED <<pc, err, rng, csv_files, df, sampleVars, raterVars, written,
                   labelVars, fn>>

\* lines 88-90
SkipPartsNotMatched ==
    /\ InLoop
    /\ Len(parts) # 6
    /\ dfs' = dfs
    /\ NextFile

\* lines 99-101 and 104-106: parts.index raises ValueError, which is caught
SkipNoCondition ==
    /\ InLoop
    /\ Len(parts) = 6
    /\ index_of_condition(parts) = -1
    /\ dfs' = dfs
    /\ NextFile

\* line 101: parts[condition_index + 1] is past the end of the list; the
\* IndexError is not a ValueError and leaves the function
RaiseIndexError ==
    /\ InLoop
    /\ Len(parts) = 6
    /\ index_of_condition(parts) # -1
    /\ index_of_condition(parts) + 1 >= Len(parts)
    /\ Raise("IndexError")
    /\ UNCHANGED <<rng, loadVars, sampleVars, raterVars, written, labelVars, fn>>

ConditionNumber == parts[index_of_condition(parts) + 2]

\* lines 102-103
SkipOtherCondition ==
    /\ InLoop
    /\ Len(parts) = 6
    /\ index_of_condition(parts) # -1
    /\ index_of_condition(parts) + 1 < Len(parts)
    /\ ConditionNumber # "1"
    /\ dfs' = dfs
    /\ NextFile

\* lines 108-127
ProcessFile ==
    /\ InLoop
    /\ Len(parts) = 6
    /\ index_of_condition(parts) # -1
    /\ index_of_condition(parts) + 1 < Len(parts)
    /\ ConditionNumber = "1"
    /\ dfs' = Append(dfs, ProcessedFile(csv_files[file_i]))
    /\ NextFile

\* lines 129-136 and 146: the loop is over; df is the concatenation, or the
\* empty DataFrame when no file was processed
ReturnDataframe ==
    /\ pc = "load"
    /\ file_i > Len(csv_files)
    /\ df' = concat(dfs)
    /\ pc' = "create_samples"
    /\ UNCHANGED <<err, rng, csv_files, file_i, dfs, sampleVars, raterVars,
                   written, labelVars, fn>>

(***************************************************************************)
(* The seeded generator.  RandomState(seed).permutation(n) is fixed by the *)
(* seed and n, and is the same at every call; which permutation it is, is  *)
(* not decided by the notebook.  It is one of the permutations             *)
(* i |-> offset + seed + stride * i (mod n), the generator chosen in Init. *)
(***************************************************************************)
RECURSIVE gcd(_, _)
gcd(a, b) == IF b = 0 THEN a ELSE gcd(b, a % b)

RECURSIVE CoprimeFrom(_, _)
CoprimeFrom(s, n) ==
    IF n = 0 \/ gcd(s, n) = 1 THEN s ELSE CoprimeFrom(s + 1, n)

Permutation(seed, n) ==
    LET stride == CoprimeFrom(rng.stride, n)
    IN  [i \in 1..n |-> ((rng.offset + seed + stride * (i - 1)) % n) + 1]

\* DataFrame.sample(n=k, random_state=seed), for k <= len: the rows at the
\* first k positions of the permutation, in that order
sample(rows, k, seed) ==
    LET perm == Permutation(seed, Len(rows))
    IN  [i \in 1..k |-> rows[perm[i]]]

(***************************************************************************)
(* create_samples                                                          *)
(***************************************************************************)
Min(a, b) == IF a <= b THEN a ELSE b

Positions(n) == [i \in 1..n |-> i]

\* Series.unique(): the values in the order of their first appearance
unique(values) ==
    LET firsts == SelectSeq(Positions(Len(values)),
                      LAMBDA i : \A j \in 1..(i - 1) : values[j] # values[i])
    IN  [k \in 1..Len(firsts) |-> values[firsts[k]]]

Column(rows, col) == [i \in 1..Len(rows) |-> rows[i][col]]

\* Series.str.contains("<skip marker>", na=True)
contains_skip_na_true(answer) ==
    \/ isna(answer)
    \/ \E i \in 1..(Len(answer) - 1) :
          SubSeq(answer, i, i + 1) = SkipMarker

\* Series.str.contains("<skip marker>", na=False)
contains_skip(answer) ==
    /\ notna(answer)
    /\ \E i \in 1..(Len(answer) - 1) :
          SubSeq(answer, i, i + 1) = SkipMarker

\* line 193
correct_answers(subset) == SelectSeq(subset, LAMBDA r : r.Is_Correct = TRUE)

incorrect_answers_keep_skipped(subset) ==
    SelectSeq(subset, LAMBDA r : r.Is_Correct = FALSE)

\* line 198
incorrect_answers(subset) ==
    SelectSeq(subset, LAMBDA r :
        r.Is_Correct = FALSE /\ ~contains_skip(r.Model_Answer))

model_sample_take_all(subset) == correct_answers(subset)

\* line 195, for a model with a correct answer
model_sample(subset) ==
    sample(correct_answers(subset),
           Min(CorrectPerModel, Len(correct_answers(subset))), SampleSeed)

\* lines 188-200: the lists true_samples and false_samples after the loop
RECURSIVE true_list(_, _)
true_list(table, models) ==
    IF models = <<>> THEN <<>>
    ELSE LET subset == SelectSeq(table, LAMBDA r : r.Model = Head(models))
         IN  (IF Len(correct_answers(subset)) > 0
              THEN <<model_sample(subset)>> ELSE <<>>)
             \o true_list(table, Tail(models))

RECURSIVE false_list(_, _)
false_list(table, models) ==
    IF models = <<>> THEN <<>>
    ELSE LET subset == SelectSeq(table, LAMBDA r : r.Model = Head(models))
         IN  (IF Len(incorrect_answers(subset)) > 0
              THEN <<incorrect_answers(subset)>> ELSE <<>>)
             \o false_list(table, Tail(models))

\* the order of Python strings, for the names the files carry
SortedNames == <<"1", "2", "comprehensive", "cond", "condition", "glm", "gpt4", "kimi",
                 "multiple", "policy", "qwen", "results", "single">>
Rank(name) == CHOOSE i \in 1..Len(SortedNames) : SortedNames[i] = name

\* the order of sort_values(by=['Model', 'Exam_Type', 'Question_Type'],
\* ascending=[True, True, False])
Before(a, b) ==
    \/ Rank(a.Model) < Rank(b.Model)
    \/ /\ a.Model = b.Model
       /\ \/ Rank(a.Exam_Type) < Rank(b.Exam_Type)
          \/ /\ a.Exam_Type = b.Exam_Type
             /\ Rank(a.Question_Type) > Rank(b.Question_Type)

SortKey(r) == <<r.Model, r.Exam_Type, r.Question_Type>>
AsKeys(k) == [Model |-> k[1], Exam_Type |-> k[2], Question_Type |-> k[3]]

\* the keys of the rows, in the order of the sort
OrderedKeys(rows) ==
    LET keys == {SortKey(rows[i]) : i \in 1..Len(rows)}
    IN  [p \in 1..Cardinality(keys) |->
            CHOOSE k \in keys :
                Cardinality({q \in keys : Before(AsKeys(q), AsKeys(k))}) = p - 1]

RECURSIVE GroupsInOrder(_, _)
GroupsInOrder(rows, keys) ==
    IF keys = <<>> THEN <<>>
    ELSE SelectSeq(rows, LAMBDA r : SortKey(r) = Head(keys))
         \o GroupsInOrder(rows, Tail(keys))

\* sorting by several columns is a stable sort: the rows of the first key,
\* then those of the second, ..., each group in the order it had
sort_values(rows) == GroupsInOrder(rows, OrderedKeys(rows))

RECURSIVE Digits(_)
Digits(i) ==
    LET d == <<"0", "1", "2", "3", "4", "5", "6", "7", "8", "9">>[(i % 10) + 1]
    IN  IF i < 10 THEN <<d>> ELSE Append(Digits(i \div 10), d)

RECURSIVE ZeroPad(_, _)
ZeroPad(digits, width) ==
    IF Len(digits) >= width THEN digits ELSE ZeroPad(<<"0">> \o digits, width)

\* f"S{i:03d}"
Sample_ID(i) == <<"S">> \o ZeroPad(Digits(i), IdWidth)

\* lines 207-210 and 217-221: the columns code, comment and Sample_ID, the
\* identifiers counting from first
WithSampleColumns(rows, first) ==
    [i \in 1..Len(rows) |->
        [Sample_ID |-> Sample_ID(first + i - 1),
         Question_ID |-> rows[i].Question_ID,
         Model |-> rows[i].Model,
         Model_Answer |-> rows[i].Model_Answer,
         Correct_Answer |-> rows[i].Correct_Answer,
         Model_Confidence |-> rows[i].Model_Confidence,
         Condition |-> rows[i].Condition,
         Exam_Type |-> rows[i].Exam_Type,
         Question_Type |-> rows[i].Question_Type,
         Is_Correct |-> rows[i].Is_Correct,
         code |-> NaN, comment |-> NaN]]

\* Model_Answer has the .str accessor when the column holds a string; a
\* column of missing values only is a float column, and .str raises
has_str_accessor(table) == \E i \in 1..Len(table) : notna(table[i].Model_Answer)

\* create_samples(df): the exception it raises, or the two sample sets.
\*  - line 198 raises AttributeError in the first pass of the loop when
\*    Model_Answer holds no string;
\*  - lines 213-214: pd.DataFrame() has no column Model, so sort_values
\*    raises KeyError when no model has a correct answer (line 213) or no
\*    model has an incorrect answer to keep (line 214); so does line 185
\*    when df itself is pd.DataFrame().
create_samples(table) ==
    LET models == unique(Column(table, "Model"))
        true_samples_df == sort_values(concat(true_list(table, models)))
        false_samples_df == sort_values(concat(false_list(table, models)))
    IN  IF models # <<>> /\ ~has_str_accessor(table)
        THEN [raised |-> "AttributeError", true |-> <<>>, false |-> <<>>]
        ELSE IF true_list(table, models) = <<>> \/ false_list(table, models) = <<>>
        THEN [raised |-> "KeyError", true |-> <<>>, false |-> <<>>]
        ELSE [raised |-> "none",
              true |-> WithSampleColumns(true_samples_df, 1),
              false |-> WithSampleColumns(false_samples_df,
                                          Len(true_samples_df) + 1)]

\* line 248
CreateSamples ==
    /\ pc = "create_samples"
    /\ LET result == create_samples(df)
       IN  IF result.raised # "none"
           THEN /\ Raise(result.raised)
                /\ UNCHANGED sampleVars
           ELSE /\ true_samples' = result.true
                /\ false_samples' = result.false
                /\ pc' = "export_samples"
                /\ err' = err
    /\ UNCHANGED <<rng, loadVars, raterVars, written, labelVars, fn>>

(***************************************************************************)
(* Export of the sample sets, reliability subsets, rater subsets, batches. *)
(* The text columns Question, Selections, Official_Explanation and         *)
(* Model_Explanation are carried along by every selection and not          *)
(* modelled.                                                               *)
(***************************************************************************)
\* lines 257-258
SampleColumns(rows) ==
    [i \in 1..Len(rows) |->
        [Sample_ID |-> rows[i].Sample_ID,
         Question_ID |-> rows[i].Question_ID,
         Correct_Answer |-> rows[i].Correct_Answer,
         Model_Answer |-> rows[i].Model_Answer,
         Model |-> rows[i].Model,
         Condition |-> rows[i].Condition,
         Exam_Type |-> rows[i].Exam_Type,
         Question_Type |-> rows[i].Question_Type,
         Is_Correct |-> rows[i].Is_Correct,
         code |-> rows[i].code, comment |-> rows[i].comment]]

\* lines 281-282 and 325-326
RaterColumns(rows) ==
    [i \in 1..Len(rows) |->
        [Sample_ID |-> rows[i].Sample_ID,
         Correct_Answer |-> rows[i].Correct_Answer,
         Model_Answer |-> rows[i].Model_Answer,
         code |-> rows[i].code, comment |-> rows[i].comment]]

\* a file written: its path with the batch number it carries (0: none) and
\* its rows
to_csv(name, rows) == [name |-> name, rows |-> rows]

\* lines 257-260
ExportSamples ==
    /\ pc = "export_samples"
    /\ true_samples' = SampleColumns(true_samples)
    /\ false_samples' = SampleColumns(false_samples)
    /\ written' = written \o
           << to_csv(<<"samples/sample_correct", 0>>, SampleColumns(true_samples)),
              to_csv(<<"samples/sample_incorrect", 0>>, SampleColumns(false_samples)) >>
    /\ pc' = "reliability"
    /\ UNCHANGED <<err, rng, loadVars, raterVars, labelVars, fn>>

\* lines 276-282; sample(n=30) raises ValueError for a frame of fewer rows,
\* at line 277, or at line 278 with line 277 done
SampleReliability ==
    /\ pc = "reliability"
    /\ IF Len(true_samples) < ReliabilityN
       THEN /\ Raise("ValueError")
            /\ UNCHANGED <<true_raliability, false_reliability>>
       ELSE IF Len(false_samples) < ReliabilityN
       THEN /\ Raise("ValueError")
            /\ true_raliability' = sample(true_samples, ReliabilityN, SampleSeed)
            /\ UNCHANGED false_reliability
       ELSE /\ true_raliability' =
                   RaterColumns(sample(true_samples, ReliabilityN, SampleSeed))
            /\ false_reliability' =
                   RaterColumns(sample(false_samples, ReliabilityN, SampleSeed))
            /\ pc' = "write_reliability"
            /\ err' = err
    /\ UNCHANGED <<rng, loadVars, sampleVars, true_samples_rater,
                   false_samples_rater, written, labelVars, fn>>

\* lines 292-293
WriteReliability ==
    /\ pc = "write_reliability"
    /\ written' = written \o
           << to_csv(<<"samples/sample_correct_reliability", 0>>, true_raliability),
              to_csv(<<"samples/sample_incorrect_reliability", 0>>, false_reliability) >>
    /\ pc' = "carve_out"
    /\ UNCHANGED <<err, rng, loadVars, sampleVars, raterVars, labelVars, fn>>

Ids(rows) == {rows[i].Sample_ID : i \in 1..Len(rows)}

without_first_rows(samples, reliability) ==
    SubSeq(samples, Len(reliability) + 1, Len(samples))

\* samples[~samples['Sample_ID'].isin(reliability['Sample_ID'])]
without_reliability(samples, reliability) ==
    SelectSeq(samples, LAMBDA r : r.Sample_ID \notin Ids(reliability))

\* lines 310-311
CarveOut ==
    /\ pc = "carve_out"
    /\ true_samples_rater' = without_reliability(true_samples, true_raliability)
    /\ false_samples_rater' = without_reliability(false_samples, false_reliability)
    /\ pc' = "shuffle"
    /\ UNCHANGED <<err, rng, loadVars, sampleVars, true_raliability,
                   false_reliability, written, labelVars, fn>>

\* sample(frac=1, random_state=77).reset_index(drop=True)
shuffle(rows) == sample(rows, Len(rows), ShuffleSeed)

\* lines 321-326
Shuffle ==
    /\ pc = "shuffle"
    /\ true_samples_rater' = RaterColumns(shuffle(true_samples_rater))
    /\ false_samples_rater' = RaterColumns(shuffle(false_samples_rater))
    /\ pc' = "batches"
    /\ UNCHANGED <<err, rng, loadVars, sampleVars, true_raliability,
                   false_reliability, written, labelVars, fn>>

\* rows.iloc[start:end], 0-based and end exclusive, cut at the frame's end
iloc(rows, start, end) == SubSeq(rows, start + 1, Min(end, Len(rows)))

\* line 337
num_batches(rows) == (Len(rows) \div batch_size) + 1

\* lines 340-343: the files the loop writes
batch_files(prefix, rows) ==
    [b \in 1..num_batches(rows) |->
        to_csv(<<prefix, b>>,
               iloc(rows, (b - 1) * batch_size, (b - 1) * batch_size + batch_size))]

\* lines 335-348
ExportBatches ==
    /\ pc = "batches"
    /\ written' = written
           \o batch_files("samples/subsample_correct_batch", true_samples_rater)
           \o batch_files("samples/subsample_incorrect_batch", false_samples_rater)
    /\ pc' = "read_labeled"
    /\ UNCHANGED <<err, rng, loadVars, sampleVars, raterVars, labelVars, fn>>

(***************************************************************************)
(* The labeled files.  The raters fill in the exported reliability and     *)
(* batch files; labeled_correct.csv and labeled_incorrect.csv hold one row *)
(* per exported row, its identifier in the column QuestionID, and one      *)
(* column per rater.  A rater's value is missing or the code the rater     *)
(* gave.                                                                   *)
(***************************************************************************)
Raters == <<"Zia", "Miao", "Sitao", "Cao">>
Codes == {<<"x">>, <<"y">>}

\* the rows of the files written under the paths of one kind, in order
RECURSIVE ExportedRows(_, _)
ExportedRows(files, paths) ==
    IF files = <<>> THEN <<>>
    ELSE (IF Head(files).name[1] \in paths THEN Head(files).rows ELSE <<>>)
         \o ExportedRows(Tail(files), paths)

RaterNumber(r) == CHOOSE q \in 1..Len(Raters) : Raters[q] = r

\* the sheet of row j: rater number q has given a code when bit q of j is
\* set, the code "x" in odd rows and "y" in even ones
RaterValue(q, j) ==
    IF (j \div (2 ^ (q - 1))) % 2 = 1
    THEN (IF j % 2 = 1 THEN <<"x">> ELSE <<"y">>)
    ELSE NaN

labeled_file(kind, columns, exported) ==
    [kind |-> kind,
     rows |-> [j \in 1..Len(exported) |->
                 [QuestionID |-> exported[j].Sample_ID,
                  Model_Answer |-> exported[j].Model_Answer,
                  raters |-> [r \in columns |-> RaterValue(RaterNumber(r), j)]]]]

labeled_correct_file(columns) ==
    labeled_file("correct", columns,
        ExportedRows(written, {"samples/sample_correct_reliability",
                               "samples/subsample_correct_batch"}))

labeled_incorrect_file ==
    labeled_file("incorrect", {"Zia", "Miao", "Sitao", "Cao"},
        ExportedRows(written, {"samples/sample_incorrect_reliability",
                               "samples/subsample_incorrect_batch"}))

\* rename(columns={'QuestionID': 'Sample_ID'})
rename(frame) ==
    [kind |-> frame.kind,
     rows |-> [j \in 1..Len(frame.rows) |->
                 [Sample_ID |-> frame.rows[j].QuestionID,
                  Model_Answer |-> frame.rows[j].Model_Answer,
                  raters |-> frame.rows[j].raters]]]

\* lines 364-374: glob.glob returns the two labeled files in either order;
\* the file of the correct set has the columns of its two raters, or of all
\* four
ReadLabeled ==
    /\ pc = "read_labeled"
    /\ \E columns \in {{"Zia", "Miao"}, {"Zia", "Miao", "Sitao", "Cao"}} :
       \E labeled_files \in
             {<<labeled_correct_file(columns), labeled_incorrect_file>>,
              <<labeled_incorrect_file, labeled_correct_file(columns)>>} :
          /\ labeled_correct' = rename(labeled_files[1])
          /\ labeled_incorrect' = rename(labeled_files[2])
    /\ pc' = "reconcile"
    /\ UNCHANGED <<err, rng, loadVars, sampleVars, raterVars, written, printed,
                   labeled_combined, fn>>

(***************************************************************************)
(* Label reconciliation and the metadata merge                             *)
(***************************************************************************)
KeyError == <<"KeyError">>

\* row[rater]
RaterColumn(row, rater) ==
    IF rater \in DOMAIN row.raters THEN row.raters[rater] ELSE KeyError

IncorrectPrecedence_as_correct == <<"Zia", "Miao", "Sitao", "Cao">>

\* lines 384 and 386-392
CorrectPrecedence == <<"Zia", "Miao">>
IncorrectPrecedence == <<"Sitao", "Cao", "Miao", "Zia">>

\* a if pd.notna(a) else (b if pd.notna(b) else (... else z)): a column is
\* read only when every column before it is missing
RECURSIVE first_notna(_, _)
first_notna(row, order) ==
    LET value == RaterColumn(row, Head(order))
    IN  IF Len(order) = 1 \/ value = KeyError \/ notna(value)
        THEN value
        ELSE first_notna(row, Tail(order))

\* frame['label'] = frame.apply(lambda row: ..., axis=1)
with_label(frame, order) ==
    [kind |-> frame.kind,
     rows |-> [j \in 1..Len(frame.rows) |->
                 [Sample_ID |-> frame.rows[j].Sample_ID,
                  Model_Answer |-> frame.rows[j].Model_Answer,
                  raters |-> frame.rows[j].raters,
                  label |-> first_notna(frame.rows[j], order)]]]

raises_KeyError(frame) ==
    \E j \in 1..Len(frame.rows) : frame.rows[j].label = KeyError

\* frame[frame['label'].isna()]
label_isna(frame) == SelectSeq(frame.rows, LAMBDA r : isna(r.label))

\* lines 383-396
Reconcile ==
    /\ pc = "reconcile"
    /\ LET correct == with_label(labeled_correct, CorrectPrecedence)
           incorrect == with_label(labeled_incorrect, IncorrectPrecedence)
       IN  IF raises_KeyError(correct)
           THEN /\ Raise("KeyError")
                /\ UNCHANGED <<labeled_correct, labeled_incorrect, printed>>
           ELSE IF raises_KeyError(incorrect)
           THEN /\ Raise("KeyError")
                /\ labeled_correct' = correct
                /\ UNCHANGED <<labeled_incorrect, printed>>
           ELSE /\ labeled_correct' = correct
                /\ labeled_incorrect' = incorrect
                /\ printed' = <<label_isna(correct), label_isna(incorrect)>>
                /\ pc' = "merge"
                /\ err' = err
    /\ UNCHANGED <<rng, loadVars, sampleVars, raterVars, written,
                   labeled_combined, fn>>

\* one row of left.merge(samples[['Sample_ID', 'Exam_Type', 'Question_Type']],
\* on='Sample_ID', how='left'); a merged column holds <<value>> or NaN
MergedRow(row, exam_type, question_type) ==
    [Sample_ID |-> row.Sample_ID, Model_Answer |-> row.Model_Answer,
     label |-> row.label,
     Exam_Type |-> exam_type, Question_Type |-> question_type]

\* a left merge: every left row once per sample of its Sample_ID, in the
\* samples' order, or once with missing columns when no sample has it.
\* Pair number p is left row j with sample k, or with no sample for k = 0.
merge(rows, samples) ==
    LET width == Len(samples) + 1
        left(p) == rows[((p - 1) \div width) + 1]
        k(p) == (p - 1) % width
        emitted == SelectSeq(Positions(Len(rows) * width),
                       LAMBDA p :
                          IF k(p) = 0
                          THEN \A i \in 1..Len(samples) :
                                  samples[i].Sample_ID # left(p).Sample_ID
                          ELSE samples[k(p)].Sample_ID = left(p).Sample_ID)
    IN  [e \in 1..Len(emitted) |->
            IF k(emitted[e]) = 0
            THEN MergedRow(left(emitted[e]), NaN, NaN)
            ELSE MergedRow(left(emitted[e]),
                           <<samples[k(emitted[e])].Exam_Type>>,
                           <<samples[k(emitted[e])].Question_Type>>)]

\* lines 405-409
MergeMetadata ==
    /\ pc = "merge"
    /\ labeled_correct' =
          [kind |-> labeled_correct.kind,
           rows |-> merge(labeled_correct.rows, true_samples)]
    /\ labeled_incorrect' =
          [kind |-> labeled_incorrect.kind,
           rows |-> merge(labeled_incorrect.rows, false_samples)]
    /\ pc' = "combine"
    /\ UNCHANGED <<err, rng, loadVars, sampleVars, raterVars, written, printed,
                   labeled_combined, fn>>

WithIsCorrect(frame, value) ==
    [kind |-> frame.kind,
     rows |-> [j \in 1..Len(frame.rows) |->
                 [Sample_ID |-> frame.rows[j].Sample_ID,
                  Model_Answer |-> frame.rows[j].Model_Answer,
                  label |-> frame.rows[j].label,
                  Exam_Type |-> frame.rows[j].Exam_Type,
                  Question_Type |-> frame.rows[j].Question_Type,
                  Is_Correct |-> value]]]

CombinedColumns(rows) ==
    [j \in 1..Len(rows) |->
        [Sample_ID |-> rows[j].Sample_ID, label |-> rows[j].label,
         Exam_Type |-> rows[j].Exam_Type,
         Question_Type |-> rows[j].Question_Type,
         Is_Correct |-> rows[j].Is_Correct]]

\* lines 418-421
Combine ==
    /\ pc = "combine"
    /\ labeled_correct' = WithIsCorrect(labeled_correct, TRUE)
    /\ labeled_incorrect' = WithIsCorrect(labeled_incorrect, FALSE)
    /\ labeled_combined' =
          CombinedColumns(WithIsCorrect(labeled_correct, TRUE).rows
                          \o WithIsCorrect(labeled_incorrect, FALSE).rows)
    /\ pc' = "write_labeled"
    /\ UNCHANGED <<err, rng, loadVars, sampleVars, raterVars, written, printed, fn>>

\* lines 430-433
WriteLabeled ==
    /\ pc = "write_labeled"
    /\ written' = written \o
          << to_csv(<<"labeled/clean_labeled_correct", 0>>, labeled_correct.rows),
             to_csv(<<"labeled/clean_labeled_incorrect", 0>>, labeled_incorrect.rows),
             to_csv(<<"labeled/clean_labeled_combined", 0>>, labeled_combined) >>
    /\ pc' = "done"
    /\ UNCHANGED <<err, rng, loadVars, sampleVars, raterVars, labelVars, fn>>

Next ==
    \/ SkipPartsNotMatched
    \/ SkipNoCondition
    \/ RaiseIndexError
    \/ SkipOtherCondition
    \/ ProcessFile
    \/ ReturnDataframe
    \/ CreateSamples
    \/ ExportSamples
    \/ SampleReliability
    \/ WriteReliability
    \/ CarveOut
    \/ Shuffle
    \/ ExportBatches
    \/ ReadLabeled
    \/ Reconcile
    \/ MergeMetadata
    \/ Combine
    \/ WriteLabeled

Spec == Init /\ [][Next]_vars

(***************************************************************************)
(* The cleaning functions and the reconciliation of one row, called on     *)
(* every input up to the bounds.                                           *)
(***************************************************************************)
Strings == UNION {[1..n -> Alphabet] : n \in 0..MaxStrLen}

\* the answer keys the calls compare with
CorrectKeys == {NaN, <<"A">>, <<"a">>, <<"A", "B">>, <<"A", ",", " ">>}

SomeParts == <<"results", "policy", "qwen", "condition", "1", "single">>

Calls ==
    [name : {"process_row"},
     arg : {RawRow("qwen", answer, correct, NanConf) :
               answer \in Strings \cup {NaN}, correct \in CorrectKeys}]
    \cup
    [name : {"clean_confidence_value"},
     arg : {NanConf, NumConf(85, 0), NumConf(5, 1)} \cup {StrConf(x) : x \in Strings}]
    \cup
    [name : {"reconcile"},
     arg : [table : {"correct", "incorrect"},
            raters : [{"Zia", "Miao", "Sitao", "Cao"} -> {NaN} \cup Codes]]]

InitFn ==
    /\ pc = "call"
    /\ err = NoError
    /\ rng = [offset |-> 0, stride |-> 1]
    /\ csv_files = <<>>
    /\ file_i = 1
    /\ dfs = <<>>
    /\ df = <<>>
    /\ true_samples = <<>>
    /\ false_samples = <<>>
    /\ true_raliability = <<>>
    /\ false_reliability = <<>>
    /\ true_samples_rater = <<>>
    /\ false_samples_rater = <<>>
    /\ written = <<>>
    /\ labeled_correct = NoFrame
    /\ labeled_incorrect = NoFrame
    /\ printed = <<>>
    /\ labeled_combined = <<>>
    /\ \E call \in Calls : fn = [name |-> call.name, arg |-> call.arg, done |-> FALSE]

Return(value) ==
    /\ fn' = [name |-> fn.name, arg |-> fn.arg, done |-> TRUE, ret |-> value]
    /\ pc' = "returned"
    /\ UNCHANGED <<err, rng, loadVars, sampleVars, raterVars, written, labelVars>>

\* lines 113-124 on one row
CallProcessRow ==
    /\ pc = "call"
    /\ fn.name = "process_row"
    /\ Return(ProcessedRow([Question_ID |-> 1, Model |-> fn.arg.Model,
                            Model_Answer |-> fn.arg.Model_Answer,
                            Correct_Answer |-> fn.arg.Correct_Answer,
                            Model_Confidence |-> fn.arg.Model_Confidence],
                           SomeParts))

\* lines 57-69
CallCleanConfidence ==
    /\ pc = "call"
    /\ fn.name = "clean_confidence_value"
    /\ Return(clean_confidence_value(fn.arg))

\* lines 383-396 on a table of one row
CallReconcile ==
    /\ pc = "call"
    /\ fn.name = "reconcile"
    /\ LET frame == [kind |-> fn.arg.table,
                     rows |-> <<[Sample_ID |-> Sample_ID(1), Model_Answer |-> NaN,
                                 raters |-> fn.arg.raters]>>]
           labeled == with_label(frame,
                          IF fn.arg.table = "correct"
                          THEN CorrectPrecedence ELSE IncorrectPrecedence)
       IN  Return([label |-> labeled.rows[1].label, printed |-> label_isna(labeled)])

NextFn ==
    \/ CallProcessRow
    \/ CallCleanConfidence
    \/ CallReconcile

SpecFn == InitFn /\ [][NextFn]_vars

(***************************************************************************)
(* Properties                                                              *)
(***************************************************************************)
AfterCreateSamples ==
    {"export_samples", "reliability", "write_reliability", "carve_out", "shuffle",
     "batches", "read_labeled", "reconcile", "merge", "combine", "write_labeled",
     "done"}
AfterCarveOut ==
    {"shuffle", "batches", "read_labeled", "reconcile", "merge", "combine",
     "write_labeled", "done"}
AfterShuffle == AfterCarveOut \ {"shuffle"}
AfterExportBatches == AfterShuffle \ {"batches"}

\* the cell named last has completed
Past(cells) == pc \in cells \/ (pc = "raised" /\ err.at \in cells)

\* create_samples was called and has returned or raised
CreateSamplesCalled ==
    Past(AfterCreateSamples) \/ (pc = "raised" /\ err.at = "create_samples")

Occurrences(rows, id) == Cardinality({i \in 1..Len(rows) : rows[i].Sample_ID = id})

RecordKey(r) == <<r.Model, r.Condition, r.Exam_Type, r.Question_Type, r.Question_ID>>
Keys(rows) == {RecordKey(rows[i]) : i \in 1..Len(rows)}
RowsOf(rows, model) == SelectSeq(rows, LAMBDA r : r.Model = model)
Models(rows) == {rows[i].Model : i \in 1..Len(rows)}

\* the reliability subset and the rater subset split the sample set by
\* Sample_ID: no identifier in both, every identifier of the set in exactly
\* one row of the two, none from elsewhere
SplitsBySampleId(samples, reliability, rater) ==
    /\ Ids(reliability) \cap Ids(rater) = {}
    /\ Ids(reliability) \cup Ids(rater) = Ids(samples)
    /\ \A id \in Ids(samples) :
          /\ Occurrences(samples, id) = 1
          /\ Occurrences(reliability \o rater, id) = 1

\* C1: for the correct and for the incorrect sample set, once the rater
\* subset is carved out, the reliability subset and the rater subset are
\* disjoint by Sample_ID and together hold every Sample_ID of the sample set
\* exactly once, before and after the rater subset is shuffled.
C1_ReliabilityAndRaterSplit ==
    Past(AfterCarveOut) =>
        /\ SplitsBySampleId(true_samples, true_raliability, true_samples_rater)
        /\ SplitsBySampleId(false_samples, false_reliability, false_samples_rater)

\* C1 witness: both rater subsets are shuffled and hold rows, and the rows
\* set aside for reliability are not the first rows of the sample set.
C1_Witness ==
    /\ pc = "batches"
    /\ Len(true_samples_rater) >= 2
    /\ Len(false_samples_rater) >= 2
    /\ Ids(true_raliability) # Ids(SubSeq(true_samples, 1, 30))
    /\ \E i \in 1..(Len(true_samples_rater) - 1) :
          \E a, b \in 1..Len(true_samples) :
             /\ a > b
             /\ true_samples[a].Sample_ID = true_samples_rater[i].Sample_ID
             /\ true_samples[b].Sample_ID = true_samples_rater[i + 1].Sample_ID

\* the number a Sample_ID carries: its digits read as a decimal number
RECURSIVE DecimalValue(_)
DecimalValue(digits) ==
    IF digits = <<>> THEN 0
    ELSE 10 * DecimalValue(SubSeq(digits, 1, Len(digits) - 1))
         + (CHOOSE d \in 0..9 :
               <<"0", "1", "2", "3", "4", "5", "6", "7", "8", "9">>[d + 1]
                  = digits[Len(digits)])
IdNumber(id) == DecimalValue(Tail(id))

\* the rows create_samples is to number, as the claim lists them
CorrectRecords(table) == SelectSeq(table, LAMBDA r : r.Is_Correct)
IncorrectRecordsToKeep(table) ==
    SelectSeq(table, LAMBDA r : ~r.Is_Correct /\ ~contains_skip(r.Model_Answer))

InSortOrder(rows) ==
    \A i \in 1..(Len(rows) - 1) : ~Before(rows[i + 1], rows[i])

\* C2 (as claimed): for every table (here: every table that holds an answer
\* string), create_samples returns the sample sets with every identifier
\* distinct, the correct rows in sorted order numbered 1, 2, ..., the
\* incorrect rows in sorted order numbered on from the number of correct
\* rows + 1 -- also when no row is correct.
C2_IdsForEveryTable ==
    (CreateSamplesCalled /\ has_str_accessor(df)) =>
        /\ ~(pc = "raised" /\ err.at = "create_samples")
        /\ Len(false_samples) = Len(IncorrectRecordsToKeep(df))
        /\ InSortOrder(true_samples) /\ InSortOrder(false_samples)
        /\ \A i \in 1..Len(true_samples) :
              IdNumber(true_samples[i].Sample_ID) = i
        /\ \A i \in 1..Len(false_samples) :
              IdNumber(false_samples[i].Sample_ID) = Len(true_samples) + i
        /\ \A i, j \in 1..Len(true_samples \o false_samples) :
              i # j => (true_samples \o false_samples)[i].Sample_ID
                        # (true_samples \o false_samples)[j].Sample_ID

\* C3: when create_samples has returned, every model of the table has
\* min(30, its number of correct records) rows in the correct sample, each of
\* them one of its correct records, and no record is in the sample twice.
C3_CorrectSamplePerModel ==
    Past(AfterCreateSamples) =>
        /\ Cardinality(Keys(df)) = Len(df)
        /\ Cardinality(Keys(true_samples)) = Len(true_samples)
        /\ \A m \in Models(df) :
              /\ Len(RowsOf(true_samples, m))
                    = Min(30, Len(RowsOf(CorrectRecords(df), m)))
              /\ Keys(RowsOf(true_samples, m))
                    \subseteq Keys(RowsOf(CorrectRecords(df), m))

\* C3 witness: create_samples has returned for a table with a model of more
\* than 30 correct answers and a model of fewer.
C3_Witness ==
    /\ pc = "export_samples"
    /\ \E m \in Models(df) : Len(RowsOf(CorrectRecords(df), m)) > 30
    /\ \E m \in Models(df) : Len(RowsOf(CorrectRecords(df), m)) \in 1..29

\* C4: when create_samples has returned, the incorrect sample holds exactly
\* the records with Is_Correct false whose normalized answer does not contain
\* the skip marker, each once: none with the marker, and every other one,
\* a missing answer included.
C4_IncorrectSampleExact ==
    Past(AfterCreateSamples) =>
        /\ Cardinality(Keys(df)) = Len(df)
        /\ Len(false_samples) = Cardinality(Keys(false_samples))
        /\ Keys(false_samples) =
              {RecordKey(df[i]) : i \in {j \in 1..Len(df) :
                  /\ ~df[j].Is_Correct
                  /\ ~(/\ notna(df[j].Model_Answer)
                       /\ \E a \in 1..(Len(df[j].Model_Answer) - 1) :
                             /\ df[j].Model_Answer[a] = "U8DF3"
                             /\ df[j].Model_Answer[a + 1] = "U8FC7")}}

\* C4 witness: create_samples has returned for a table with an incorrect
\* record that holds the skip marker and one whose answer is missing, and the
\* latter is in the incorrect sample.
C4_Witness ==
    /\ pc = "export_samples"
    /\ \E i \in 1..Len(df) : contains_skip(df[i].Model_Answer)
    /\ \E i \in 1..Len(false_samples) : isna(false_samples[i].Model_Answer)

\* a record of the model that create_samples can draw: a correct one, or an
\* incorrect one whose normalized answer does not hold the skip marker
HasRecordToSample(table, m) ==
    \E i \in 1..Len(table) :
        /\ table[i].Model = m
        /\ \/ table[i].Is_Correct
           \/ isna(table[i].Model_Answer)
           \/ ~\E a \in 1..(Len(table[i].Model_Answer) - 1) :
                   /\ table[i].Model_Answer[a] = "U8DF3"
                   /\ table[i].Model_Answer[a + 1] = "U8FC7"

\* C11 (as claimed): when create_samples has returned, every model with a
\* record in the table has a row in the correct or the incorrect sample.
C11_EveryModelRepresented ==
    Past(AfterCreateSamples) =>
        Models(df) \subseteq Models(true_samples \o false_samples)

\* C11 (amended): when create_samples has returned, the models with a row in
\* the correct or the incorrect sample are exactly the models of the table
\* that have a correct record or an incorrect record without the skip
\* marker; a model whose records are all incorrect answers holding the skip
\* marker has no row.
C11_ModelsWithRecordToSample ==
    Past(AfterCreateSamples) =>
        Models(true_samples \o false_samples)
            = {m \in Models(df) : HasRecordToSample(df, m)}

\* C11 witness: create_samples has returned for a table with a model that
\* has a row in the samples and a model that has none.
C11_Witness ==
    /\ pc = "export_samples"
    /\ \E m \in Models(df) : m \in Models(true_samples \o false_samples)
    /\ \E m \in Models(df) : m \notin Models(true_samples \o false_samples)

AfterSampleReliability == AfterCreateSamples \ {"export_samples", "reliability"}

\* 30 rows of the sample set, with 30 distinct Sample_IDs
ThirtyRowsOf(reliability, samples) ==
    /\ Len(reliability) = 30
    /\ Cardinality(Ids(reliability)) = 30
    /\ Ids(reliability) \subseteq Ids(samples)

\* C12 (as claimed): the reliability sampling cell never raises, and once it
\* has run each of the two reliability subsets is 30 rows of its sample set
\* with 30 distinct Sample_IDs, whatever the size of the sample set.
C12_ReliabilityThirtyForAnySize ==
    /\ ~(pc = "raised" /\ err.at = "reliability")
    /\ Past(AfterSampleReliability) =>
          /\ ThirtyRowsOf(true_raliability, true_samples)
          /\ ThirtyRowsOf(false_reliability, false_samples)

Returned(name) == pc = "returned" /\ fn.done /\ fn.name = name

\* the claim's precedence lists
ClaimedPrecedence(table) ==
    IF table = "correct" THEN <<"Zia", "Miao">>
    ELSE <<"Sitao", "Cao", "Miao", "Zia">>

\* C5: the reconciled label of a row is the first non-missing rater value in
\* the table's precedence order (Zia, Miao for the correct set; Sitao, Cao,
\* Miao, Zia for the incorrect set); it is missing, and the row is printed as
\* flagged, exactly when every rater of that list has a missing value.
C5_FirstNonMissingLabel ==
    Returned("reconcile") =>
        LET order == ClaimedPrecedence(fn.arg.table)
            value(k) == fn.arg.raters[order[k]]
            all_missing == \A k \in 1..Len(order) : isna(value(k))
        IN  /\ \/ all_missing /\ isna(fn.ret.label)
               \/ \E k \in 1..Len(order) :
                     /\ notna(value(k))
                     /\ \A j \in 1..(k - 1) : isna(value(j))
                     /\ fn.ret.label = value(k)
            /\ isna(fn.ret.label) <=> all_missing
            /\ (fn.ret.printed # <<>>) <=> all_missing

\* C5 witness: a row of the incorrect set whose first two raters in the
\* order gave nothing and whose third gave "x" has the label "x".
C5_Witness ==
    /\ Returned("reconcile")
    /\ fn.arg.table = "incorrect"
    /\ isna(fn.arg.raters["Sitao"]) /\ isna(fn.arg.raters["Cao"])
    /\ fn.arg.raters["Miao"] = <<"x">> /\ fn.arg.raters["Zia"] = <<"y">>
    /\ fn.ret.label = <<"x">>
    /\ fn.ret.printed = <<>>

AfterReadLabeled == {"reconcile", "merge", "combine", "write_labeled", "done"}
AfterMerge == {"combine", "write_labeled", "done"}

\* every row the raters labeled is in the merged table once, with the exam
\* type and question type of its Sample_ID in the sample set
MetadataReproduced(merged, labeled, samples) ==
    /\ Len(merged) = Len(labeled)
    /\ \A j \in 1..Len(labeled) :
          /\ Occurrences(merged, labeled[j].Sample_ID) = 1
          /\ \E i \in 1..Len(samples) :
                /\ samples[i].Sample_ID = labeled[j].Sample_ID
                /\ \A e \in 1..Len(merged) :
                      merged[e].Sample_ID = labeled[j].Sample_ID =>
                         /\ merged[e].Exam_Type = <<samples[i].Exam_Type>>
                         /\ merged[e].Question_Type = <<samples[i].Question_Type>>

\* C6 (as claimed): whichever order the labeled files are found in, the
\* cells that follow run, and the merged tables give every labeled row of the
\* correct set and of the incorrect set the exam type and question type of
\* its Sample_ID, no row duplicated, dropped or without metadata.
C6_RoundTripAnyOrder ==
    Past(AfterReadLabeled) =>
        /\ pc # "raised"
        /\ Past(AfterMerge) =>
              /\ MetadataReproduced(labeled_correct.rows,
                    ExportedRows(written, {"samples/sample_correct_reliability",
                                           "samples/subsample_correct_batch"}),
                    true_samples)
              /\ MetadataReproduced(labeled_incorrect.rows,
                    ExportedRows(written, {"samples/sample_incorrect_reliability",
                                           "samples/subsample_incorrect_batch"}),
                    false_samples)

\* a file name as the claim wants it: six components, one of them
\* 'condition' with a component after it
WellFormedName(name) ==
    /\ Len(name) = 6
    /\ \E i \in 1..5 : name[i] = "condition"

\* C7 (as claimed): no file name makes load_and_process_files raise, and a
\* file with a malformed name (not six components, or no 'condition'
\* followed by a condition number) adds no rows.
C7_MalformedNamesSkipped ==
    /\ ~(pc = "raised" /\ err.at = "load")
    /\ Len(dfs) <= Cardinality({i \in 1..Len(csv_files) :
                                   i < file_i /\ WellFormedName(csv_files[i].parts)})

\* C8 (as claimed): a non-missing Model_Answer or Correct_Answer of the
\* loaded table is made of uppercase letters only, a missing one stays
\* missing, and Is_Correct compares the normalized values.
C8_UppercaseOnly ==
    Returned("process_row") =>
        /\ \A col \in {"Model_Answer", "Correct_Answer"} :
              /\ isna(fn.arg[col]) <=> isna(fn.ret[col])
              /\ notna(fn.ret[col]) =>
                    \A i \in 1..Len(fn.ret[col]) : fn.ret[col][i] \in UpperChars
        /\ fn.ret.Is_Correct <=>
              /\ notna(fn.ret.Model_Answer) /\ notna(fn.ret.Correct_Answer)
              /\ fn.ret.Model_Answer = fn.ret.Correct_Answer

\* a is b with some characters left out
RECURSIVE IsSubsequence(_, _)
IsSubsequence(a, b) ==
    IF a = <<>> THEN TRUE
    ELSE IF b = <<>> THEN FALSE
    ELSE IF Head(a) = Head(b) THEN IsSubsequence(Tail(a), Tail(b))
    ELSE IsSubsequence(a, Tail(b))

Letters == {"A", "B", "a", "U8DF3", "U8FC7"}

\* C8 (amended): a non-missing Model_Answer or Correct_Answer of the loaded
\* table is the raw string without its non-letters: every letter of it, of
\* either case and any script, is kept in place and as it was written (none
\* is uppercased), and nothing else is kept; a missing one stays missing;
\* Is_Correct is true exactly when both normalized values are present and
\* equal.
C8_LettersOnly ==
    Returned("process_row") =>
        /\ \A col \in {"Model_Answer", "Correct_Answer"} :
              /\ isna(fn.arg[col]) <=> isna(fn.ret[col])
              /\ notna(fn.ret[col]) =>
                    /\ \A i \in 1..Len(fn.ret[col]) : fn.ret[col][i] \in Letters
                    /\ IsSubsequence(fn.ret[col], fn.arg[col])
                    /\ \A c \in Letters :
                          Count(fn.ret[col], c) = Count(fn.arg[col], c)
        /\ fn.ret.Is_Correct <=>
              /\ notna(fn.ret.Model_Answer) /\ notna(fn.ret.Correct_Answer)
              /\ fn.ret.Model_Answer = fn.ret.Correct_Answer

\* C8 witness: the answer 'a,B' is loaded as 'aB', the lowercase letter kept,
\* and the key 'A, ' as 'A'.
C8_Witness ==
    /\ Returned("process_row")
    /\ fn.arg.Model_Answer = <<"a", ",", "B">>
    /\ fn.ret.Model_Answer = <<"a", "B">>
    /\ fn.arg.Correct_Answer = <<"A", ",", " ">>
    /\ fn.ret.Correct_Answer = <<"A">>
    /\ ~fn.ret.Is_Correct

\* the string the claim parses: s without the characters that are neither a
\* digit nor a decimal point
DigitsAndPoints(x) ==
    SelectSeq(x, LAMBDA c : c \in {"8", "5", "SUP2", "."})

\* a decimal number: decimal digits, at least one, around at most one point
IsDecimalNumber(x) ==
    /\ \A i \in 1..Len(x) : x[i] \in {"8", "5", "."}
    /\ Cardinality({i \in 1..Len(x) : x[i] = "."}) <= 1
    /\ \E i \in 1..Len(x) : x[i] \in {"8", "5"}

\* C9: clean_confidence_value raises nothing: for a missing value, a number
\* or a string it returns a number or the missing value, and the missing
\* value whenever the string's digits and points are not a decimal number.
C9_ConfidenceNeverRaises ==
    Returned("clean_confidence_value") =>
        /\ fn.ret.t \in {"None", "float"}
        /\ fn.arg.t = "nan" => fn.ret = None
        /\ fn.arg.t = "num" => fn.ret.t = "float"
        /\ fn.arg.t = "str" =>
              (fn.ret = None <=> ~IsDecimalNumber(DigitsAndPoints(fn.arg.s)))

\* C9 witness: '.8.' has two points, '%' no digit, and both give the missing
\* value; '85%' gives 85.
C9_Witness ==
    /\ Returned("clean_confidence_value")
    /\ fn.arg.t = "str"
    /\ fn.arg.s = <<".", "8", ".">>
    /\ fn.ret = None

BatchFiles(prefix) == SelectSeq(written, LAMBDA f : f.name[1] = prefix)

\* the batch files hold the rows of the rater subset in batches of 100: every
\* row in one file, 100 rows in every file but the last, no file empty
BatchesOfHundred(files, rows) ==
    /\ Len(files) = (Len(rows) + 99) \div 100
    /\ \A b \in 1..Len(files) :
          /\ Len(files[b].rows) >= 1
          /\ b < Len(files) => Len(files[b].rows) = 100
    /\ concat([b \in 1..Len(files) |-> files[b].rows]) = rows

\* C10 (as claimed): the shuffled rater subset of n rows is written as
\* ceil(n / 100) batch files, none of them empty, all but the last of 100
\* rows, every row in exactly one of them -- also for n = 0.
C10_BatchesOfHundred ==
    Past(AfterExportBatches) =>
        /\ BatchesOfHundred(BatchFiles("samples/subsample_correct_batch"),
                            true_samples_rater)
        /\ BatchesOfHundred(BatchFiles("samples/subsample_incorrect_batch"),
                            false_samples_rater)

=============================================================================
